---- MODULE Spec2Model ----
(***************************************************************************)
(* Model of valhalla::geo::Tiles (src/src/geo/tiles.cc): a uniform grid    *)
(* of square tiles over a bounding box, with coordinate <-> tile id        *)
(* conversions, neighbour queries and the bounded flood fill TileList.     *)
(*                                                                         *)
(* Coordinates are C++ floats.  A float is modelled by an integer count of *)
(* a fixed quantum (1.0 is Unit quanta); Fl rounds an exact result to the  *)
(* 24-bit significand of binary32, ties to even, so that every float       *)
(* addition, subtraction and multiplication of the source keeps its        *)
(* rounding.  Every modelled tile size is a power of two, for which the    *)
(* float division by tilesize_ is exact.                                   *)
(***************************************************************************)
EXTENDS Integers, Sequences, FiniteSets, TLC

VARIABLES tilebounds_, tilesize_, ncolumns_, nrows_,
          checklist_, tilelist_, visitedtiles_, call

vars == <<tilebounds_, tilesize_, ncolumns_, nrows_,
          checklist_, tilelist_, visitedtiles_, call>>

grid == <<tilebounds_, tilesize_, ncolumns_, nrows_>>
scratch == <<checklist_, tilelist_, visitedtiles_>>

(***************************************************************************)
(* float arithmetic                                                        *)
(***************************************************************************)
\* significand width of a C++ float
Mantissa == 24

\* the quanta in 1.0f
Unit == 2^(Mantissa - 2)

\* largest maxtiles value tried besides TileCount() + 1
MaxCap == 2

Abs(n) == IF n < 0 THEN -n ELSE n

RECURSIVE Ulp(_)
\* spacing of the floats around a magnitude of a quanta
Ulp(a) == IF a < 2^Mantissa THEN 1 ELSE 2 * Ulp(a \div 2)

\* the float nearest to the exact value n, ties to the even significand
Fl(n) ==
  LET a == Abs(n)
      u == Ulp(a)
      q == a \div u
      r == a % u
      m == IF 2 * r < u THEN q
           ELSE IF 2 * r > u THEN q + 1
           ELSE IF q % 2 = 0 THEN q ELSE q + 1
  IN IF n < 0 THEN -(m * u) ELSE m * u

\* a / b in float arithmetic; exact, b being a power of two
FDiv(a, b) == [num |-> a, den |-> b]

\* (int) q : truncation toward zero
IntCast(q) == IF q.num >= 0 THEN q.num \div q.den ELSE -((-q.num) \div q.den)

\* ceil(q)
Ceil(q) == -((-q.num) \div q.den)

\* a / b of two C++ ints : truncation toward zero
CDiv(a, b) == IF a >= 0 THEN a \div b ELSE -((-a) \div b)

(***************************************************************************)
(* Point2 and AABB2, the geometry types Tiles is written against           *)
(***************************************************************************)
Point2(px, py) == [x |-> px, y |-> py]

AABB2(x0, y0, x1, y1) == [minx |-> x0, miny |-> y0, maxx |-> x1, maxy |-> y1]

\* AABB2::Center : the midpoint, in float arithmetic
AABB2Center(b) == Point2(Fl(b.minx + b.maxx) \div 2, Fl(b.miny + b.maxy) \div 2)

\* AABB2::Intersects : closed intervals overlap on both axes
Intersects(a, b) ==
  ~(a.minx > b.maxx \/ a.miny > b.maxy \/ a.maxx < b.minx \/ a.maxy < b.miny)

(***************************************************************************)
(* Tiles : derived geometry and coordinate -> index                        *)
(***************************************************************************)
Row(y) ==
  IF y < tilebounds_.miny \/ y > tilebounds_.maxy THEN -1
  ELSE IF y = tilebounds_.maxy THEN nrows_ - 1
  ELSE IntCast(FDiv(Fl(y - tilebounds_.miny), tilesize_))

Col(x) ==
  IF x < tilebounds_.minx \/ x > tilebounds_.maxx THEN -1
  ELSE IF x = tilebounds_.maxx THEN ncolumns_ - 1
  ELSE LET col == FDiv(Fl(x - tilebounds_.minx), tilesize_)
       IN IF col.num >= 0 THEN IntCast(col) ELSE IntCast(col) - 1

TileIdYX(y, x) ==
  IF y < tilebounds_.miny \/ x < tilebounds_.minx
     \/ y > tilebounds_.maxy \/ x > tilebounds_.maxx
  THEN -1
  ELSE (Row(y) * ncolumns_) + Col(x)

TileIdPoint(c) == TileIdYX(c.y, c.x)

TileIdColRow(col, row) == (row * ncolumns_) + col

\* Base dividing by the row count instead of the column count
Base_ByRowCount(tileid) ==
  LET row == CDiv(tileid, nrows_)
      col == tileid - (row * nrows_)
  IN Point2(Fl(tilebounds_.miny + Fl(row * tilesize_)),
            Fl(tilebounds_.minx + Fl(col * tilesize_)))

Base(tileid) ==
  LET row == CDiv(tileid, ncolumns_)
      col == tileid - (row * ncolumns_)
  IN Point2(Fl(tilebounds_.miny + Fl(row * tilesize_)),
            Fl(tilebounds_.minx + Fl(col * tilesize_)))

TileBounds(tileid) ==
  LET base == Base(tileid)
  IN AABB2(base.y, base.x, Fl(base.y + tilesize_), Fl(base.x + tilesize_))

Center(tileid) ==
  LET base == Base(tileid)
  IN Point2(Fl(base.y + tilesize_ \div 2), Fl(base.x + tilesize_ \div 2))

TileCount ==
  LET nrows == FDiv(Fl(tilebounds_.maxy - tilebounds_.miny), tilesize_)
  IN ncolumns_ * Ceil(nrows)

(***************************************************************************)
(* Tiles : neighbours                                                      *)
(***************************************************************************)
\* RightNeighbor without the wrap to the first column
RightNeighbor_NoWrap(tileid) == tileid + 1

RightNeighbor(tileid) ==
  LET row == CDiv(tileid, ncolumns_)
      col == tileid - (row * ncolumns_)
  IN IF col < ncolumns_ - 1 THEN tileid + 1 ELSE tileid - ncolumns_ + 1

LeftNeighbor(tileid) ==
  LET row == CDiv(tileid, ncolumns_)
      col == tileid - (row * ncolumns_)
  IN IF col > 0 THEN tileid - 1 ELSE tileid + ncolumns_ - 1

\* TopNeighbor comparing with <= instead of <
TopNeighbor_OffByOne(tileid) ==
  IF tileid <= TileCount - ncolumns_ THEN tileid + ncolumns_ ELSE tileid

TopNeighbor(tileid) ==
  IF tileid < TileCount - ncolumns_ THEN tileid + ncolumns_ ELSE tileid

BottomNeighbor(tileid) ==
  IF tileid < ncolumns_ THEN tileid ELSE tileid - ncolumns_

(***************************************************************************)
(* Tiles : the bounded flood fill.  s is the scratch state of the object:  *)
(* [checklist_, tilelist_, visitedtiles_].                                 *)
(***************************************************************************)
\* InList looking in the result vector instead of the visited map
InList_ResultOnly(s, id) == \E i \in 1 .. Len(s.tilelist_) : s.tilelist_[i] = id

InList(s, id) == id \in DOMAIN s.visitedtiles_

\* one of the four blocks of addNeighbors
addNeighbor(s, tileid, neighbor) ==
  IF neighbor # tileid /\ ~InList(s, neighbor)
  THEN [s EXCEPT !.checklist_ = Append(@, neighbor),
                 !.visitedtiles_ = (neighbor :> 1) @@ @]
  ELSE s

addNeighbors(s, tileid) ==
  LET s1 == addNeighbor(s, tileid, LeftNeighbor(tileid))
      s2 == addNeighbor(s1, tileid, RightNeighbor(tileid))
      s3 == addNeighbor(s2, tileid, TopNeighbor(tileid))
  IN addNeighbor(s3, tileid, BottomNeighbor(tileid))

RECURSIVE NextTile(_, _)
\* returns the scratch state left behind and the tile id found, or -1
NextTile(s, boundingbox) ==
  IF s.checklist_ = <<>> THEN [s |-> s, tileid |-> -1]
  ELSE LET tileid == Head(s.checklist_)
           s1 == [s EXCEPT !.checklist_ = Tail(@)]
       IN IF Intersects(boundingbox, TileBounds(tileid))
          THEN [s |-> addNeighbors(s1, tileid), tileid |-> tileid]
          ELSE NextTile(s1, boundingbox)

RECURSIVE TileListLoop(_, _, _)
\* the while loop of TileList
TileListLoop(s, boundingbox, maxtiles) ==
  LET r == NextTile(s, boundingbox)
  IN IF r.tileid >= 0
     THEN LET s1 == [r.s EXCEPT !.tilelist_ = Append(@, r.tileid)]
          IN IF Len(s1.tilelist_) = maxtiles THEN s1
             ELSE TileListLoop(s1, boundingbox, maxtiles)
     ELSE r.s

\* ClearLists without visitedtiles_.clear()
ClearLists_KeepVisited(s) ==
  [checklist_ |-> <<>>, tilelist_ |-> <<>>, visitedtiles_ |-> s.visitedtiles_]

\* the three clear() calls at the head of TileList
ClearLists(s) == [checklist_ |-> <<>>, tilelist_ |-> <<>>, visitedtiles_ |-> <<>>]

\* TileList without the early return on a centre outside the grid
TileList_NoCentreCheck(s, boundingbox, maxtiles) ==
  LET s0 == ClearLists(s)
      tileid == TileIdPoint(AABB2Center(boundingbox))
      s1 == [s0 EXCEPT !.tilelist_ = Append(@, tileid),
                       !.visitedtiles_ = (tileid :> 1) @@ @]
  IN TileListLoop(addNeighbors(s1, tileid), boundingbox, maxtiles)

TileList(s, boundingbox, maxtiles) ==
  LET s0 == ClearLists(s)
      tileid == TileIdPoint(AABB2Center(boundingbox))
  IN IF tileid = -1 THEN s0
     ELSE LET s1 == [s0 EXCEPT !.tilelist_ = Append(@, tileid),
                               !.visitedtiles_ = (tileid :> 1) @@ @]
          IN TileListLoop(addNeighbors(s1, tileid), boundingbox, maxtiles)

(***************************************************************************)
(* The grids, query rectangles and coordinates tried                       *)
(***************************************************************************)
Q == Unit \div 4

\* [bounds, tilesize] of the grids constructed
Grids ==
  { [b |-> AABB2(0, 0, 4 * Unit, 4 * Unit), ts |-> Unit],          \* 4 x 4
    [b |-> AABB2(-2 * Unit, -2 * Unit, 4 * Unit, 4 * Unit), ts |-> 2 * Unit], \* 3 x 3, min < 0
    [b |-> AABB2(0, 0, Unit, 3 * Unit), ts |-> Unit],              \* 1 column
    [b |-> AABB2(0, 0, 2 * Unit, 2 * Unit), ts |-> Unit],          \* 2 columns
    [b |-> AABB2(0, 0, 9 * Q, 9 * Q), ts |-> Unit],                \* 3 x 3, last tiles a quarter wide
    [b |-> AABB2(0, 0, 5 * Q, 4 * Q), ts |-> 2 * Q],               \* 3 x 2, last column half wide
    [b |-> AABB2(-2 * Unit, 0, 2 * Unit, 2 * Unit), ts |-> 2 * Unit] } \* 2 x 1

\* intervals of a query rectangle on one axis of a grid spanning mn .. mx
AxisIntervals(mn, mx, ts) ==
  { <<mn + ts \div 4, mn + ts \div 2>>,        \* inside the first tile
    <<mn + ts \div 2, mn + ts + ts \div 2>>,   \* across the first tile border
    <<mn, mx>>,                                \* the whole extent
    <<mx - 2, mx>>,                            \* centre one float below max
    <<mn - ts \div 2, mn + ts>>,               \* centre inside, sticking out
    <<mx - ts \div 2, mx + ts>>,               \* centre outside, overlapping
    <<mx + ts \div 2, mx + ts>> }              \* outside

XIntervals == AxisIntervals(tilebounds_.minx, tilebounds_.maxx, tilesize_)

YIntervals ==
  AxisIntervals(tilebounds_.miny, tilebounds_.maxy, tilesize_)
    \ { <<tilebounds_.miny + tilesize_ \div 2,
          tilebounds_.miny + tilesize_ + tilesize_ \div 2>>,
        <<tilebounds_.miny - tilesize_ \div 2, tilebounds_.miny + tilesize_>>,
        <<tilebounds_.maxy + tilesize_ \div 2, tilebounds_.maxy + tilesize_>> }

Queries == { AABB2(xi[1], yi[1], xi[2], yi[2]) : xi \in XIntervals, yi \in YIntervals }

Caps == (0 .. MaxCap) \cup {TileCount + 1}

\* coordinates handed to Row, Col and TileId
AxisProbes(mn, mx, ts) ==
  { mn - 1, mn, mn + ts \div 2, mn + ts, mx - 1, mx, mx + 2 }

XProbes == AxisProbes(tilebounds_.minx, tilebounds_.maxx, tilesize_)
YProbes == AxisProbes(tilebounds_.miny, tilebounds_.maxy, tilesize_)

TileIds == 0 .. (TileCount - 1)

(***************************************************************************)
(* The state machine: construction, then any sequence of calls             *)
(***************************************************************************)
\* Tiles::Tiles(bounds, tilesize)
Init ==
  /\ \E g \in Grids :
       /\ tilebounds_ = g.b
       /\ tilesize_ = g.ts
       /\ ncolumns_ = Ceil(FDiv(Fl(g.b.maxx - g.b.minx), g.ts))
       /\ nrows_ = Ceil(FDiv(Fl(g.b.maxy - g.b.miny), g.ts))
  /\ checklist_ = <<>>
  /\ tilelist_ = <<>>
  /\ visitedtiles_ = <<>>
  /\ call = [op |-> "Tiles"]

Pure(c) == call' = c /\ UNCHANGED <<grid, scratch>>

CallRow == \E y \in YProbes : Pure([op |-> "Row", y |-> y, ret |-> Row(y)])

CallCol == \E x \in XProbes : Pure([op |-> "Col", x |-> x, ret |-> Col(x)])

CallTileId ==
  \E x \in XProbes, y \in YProbes :
    Pure([op |-> "TileId", c |-> Point2(x, y), ret |-> TileIdPoint(Point2(x, y))])

CallCenter ==
  \E col \in 0 .. (ncolumns_ - 1), row \in 0 .. (nrows_ - 1) :
    Pure([op |-> "Center", col |-> col, row |-> row,
          ret |-> Center(TileIdColRow(col, row))])

CallRightNeighbor ==
  \E t \in TileIds : Pure([op |-> "RightNeighbor", tileid |-> t, ret |-> RightNeighbor(t)])

CallLeftNeighbor ==
  \E t \in TileIds : Pure([op |-> "LeftNeighbor", tileid |-> t, ret |-> LeftNeighbor(t)])

CallTopNeighbor ==
  \E t \in TileIds : Pure([op |-> "TopNeighbor", tileid |-> t, ret |-> TopNeighbor(t)])

CallBottomNeighbor ==
  \E t \in TileIds : Pure([op |-> "BottomNeighbor", tileid |-> t, ret |-> BottomNeighbor(t)])

\* the scratch members of the object, as the record the operators work on
Scratch ==
  [checklist_ |-> checklist_, tilelist_ |-> tilelist_, visitedtiles_ |-> visitedtiles_]

\* ret is the vector returned; stale records that the work queue of an
\* earlier call was still non-empty when this call began
CallTileList ==
  \E boundingbox \in Queries, maxtiles \in Caps :
    \E s \in {TileList(Scratch, boundingbox, maxtiles)} :
       /\ checklist_' = s.checklist_
       /\ tilelist_' = s.tilelist_
       /\ visitedtiles_' = s.visitedtiles_
       /\ call' = [op |-> "TileList", boundingbox |-> boundingbox,
                   maxtiles |-> maxtiles, ret |-> s.tilelist_,
                   stale |-> (checklist_ # <<>>)]
       /\ UNCHANGED grid

\* the calls that leave the object untouched
NextPure ==
  \/ CallRow
  \/ CallCol
  \/ CallTileId
  \/ CallCenter
  \/ CallRightNeighbor
  \/ CallLeftNeighbor
  \/ CallTopNeighbor
  \/ CallBottomNeighbor

Next == NextPure \/ CallTileList

Spec == Init /\ [][Next]_vars

\* a constructed grid answering coordinate and neighbour queries
SpecPure == Init /\ [][NextPure]_vars

\* a constructed grid answering a sequence of TileList calls
SpecList == Init /\ [][CallTileList]_vars

(***************************************************************************)
(* Properties                                                              *)
(***************************************************************************)
TypeOK == ncolumns_ >= 1 /\ nrows_ >= 1

RowOf(t) == t \div ncolumns_
ColOf(t) == t % ncolumns_

Elems(seq) == { seq[i] : i \in 1 .. Len(seq) }

\* the point lies within the grid bounds, edges included
InBounds(c) ==
  /\ tilebounds_.minx <= c.x /\ c.x <= tilebounds_.maxx
  /\ tilebounds_.miny <= c.y /\ c.y <= tilebounds_.maxy

\* the scratch state of a freshly constructed object
Fresh == [checklist_ |-> <<>>, tilelist_ |-> <<>>, visitedtiles_ |-> <<>>]

\* C1: the sequence returned by TileList(queryRect, maxTiles) never has more
\* than maxTiles entries, for every grid, rectangle and maxTiles value.
C1_LengthAtMostMaxTiles ==
  call.op = "TileList" => Len(call.ret) <= call.maxtiles

C3_AllIntersect ==
  call.op = "TileList" =>
    \A t \in Elems(call.ret) : Intersects(call.boundingbox, TileBounds(t))

\* C4: no tile id appears twice in the sequence TileList returns, on grids
\* of one or two columns too.
C4_NoDuplicates ==
  call.op = "TileList" =>
    \A i, j \in 1 .. Len(call.ret) : i # j => call.ret[i] # call.ret[j]

\* C4 witness: a call on a two-column grid, where the left and the right
\* neighbour are the same tile, that returned both tiles of a row.
C4_Witness ==
  /\ call.op = "TileList"
  /\ ncolumns_ = 2
  /\ Len(call.ret) >= 2
  /\ LeftNeighbor(call.ret[1]) = RightNeighbor(call.ret[1])
  /\ LeftNeighbor(call.ret[1]) \in Elems(call.ret)

\* C5: when the centre of the query rectangle lies outside the grid bounds,
\* TileList returns the empty sequence whatever maxTiles is, even if the
\* rectangle overlaps the grid.
C5_CentreOutsideEmpty ==
  (call.op = "TileList" /\ ~InBounds(AABB2Center(call.boundingbox))) =>
    call.ret = <<>>

\* C5 witness: a call with a rectangle that overlaps the grid and whose
\* centre lies outside it.
C5_Witness ==
  /\ call.op = "TileList"
  /\ ~InBounds(AABB2Center(call.boundingbox))
  /\ Intersects(call.boundingbox, tilebounds_)
  /\ call.ret = <<>>

\* C6: TileId(point) is -1 exactly when the point lies outside the bounds and
\* otherwise an id in 0 .. TileCount()-1; x = maxX maps to the last column
\* and y = maxY to the last row.
C6_TileIdRange ==
  call.op = "TileId" =>
    /\ (call.ret = -1) <=> ~InBounds(call.c)
    /\ InBounds(call.c) => call.ret \in 0 .. (ncolumns_ * nrows_ - 1)
    /\ (InBounds(call.c) /\ call.c.x = tilebounds_.maxx) =>
         ColOf(call.ret) = ncolumns_ - 1
    /\ (InBounds(call.c) /\ call.c.y = tilebounds_.maxy) =>
         RowOf(call.ret) = nrows_ - 1

\* C7: LeftNeighbor undoes RightNeighbor and RightNeighbor undoes
\* LeftNeighbor on every tile id in range, and both stay in the tile's row.
C7_WrapBijection ==
  /\ call.op = "RightNeighbor" =>
       /\ LeftNeighbor(call.ret) = call.tileid
       /\ call.ret \in TileIds
       /\ RowOf(call.ret) = RowOf(call.tileid)
  /\ call.op = "LeftNeighbor" =>
       /\ RightNeighbor(call.ret) = call.tileid
       /\ call.ret \in TileIds
       /\ RowOf(call.ret) = RowOf(call.tileid)

\* C7 witness: RightNeighbor of a tile in the last column of a grid of
\* several columns wrapped to the first column of the row.
C7_Witness ==
  /\ call.op = "RightNeighbor"
  /\ ncolumns_ > 1
  /\ ColOf(call.tileid) = ncolumns_ - 1
  /\ ColOf(call.ret) = 0

\* C8: BottomNeighbor of a tile in row 0 and TopNeighbor of a tile in the
\* last row are the tile itself; elsewhere they are the tile one row below
\* or above in the same column, and never leave 0 .. TileCount()-1.
C8_TopBottomNoWrap ==
  /\ call.op = "BottomNeighbor" =>
       /\ call.ret \in TileIds
       /\ IF RowOf(call.tileid) = 0 THEN call.ret = call.tileid
          ELSE /\ RowOf(call.ret) = RowOf(call.tileid) - 1
               /\ ColOf(call.ret) = ColOf(call.tileid)
  /\ call.op = "TopNeighbor" =>
       /\ call.ret \in TileIds
       /\ IF RowOf(call.tileid) = nrows_ - 1 THEN call.ret = call.tileid
          ELSE /\ RowOf(call.ret) = RowOf(call.tileid) + 1
               /\ ColOf(call.ret) = ColOf(call.tileid)

\* C8 witness: TopNeighbor of a tile in the last row of a grid of several
\* rows returned the tile itself.
C8_Witness ==
  /\ call.op = "TopNeighbor"
  /\ nrows_ > 1
  /\ RowOf(call.tileid) = nrows_ - 1
  /\ call.ret = call.tileid

\* C9: whatever TileList calls came before, a call returns the sequence the
\* same call returns on a freshly constructed grid, and what it leaves in
\* the object is what it leaves in a fresh one.
C9_SameAsFresh ==
  call.op = "TileList" =>
    /\ call.ret = TileList(Fresh, call.boundingbox, call.maxtiles).tilelist_
    /\ Scratch = TileList(Fresh, call.boundingbox, call.maxtiles)

\* C9 witness: a call that found the work queue of an earlier, capped call
\* non-empty and returned several tiles.
C9_Witness ==
  /\ call.op = "TileList"
  /\ call.stale
  /\ Len(call.ret) >= 2

\* C10: with the centre of the rectangle inside the grid and maxTiles above
\* the number of tiles, TileList returns exactly the ids in
\* 0 .. TileCount()-1 whose bounds intersect the rectangle.
C10_ExactlyIntersecting ==
  (/\ call.op = "TileList"
   /\ InBounds(AABB2Center(call.boundingbox))
   /\ call.maxtiles > TileCount) =>
    Elems(call.ret) =
      { t \in TileIds : Intersects(call.boundingbox, TileBounds(t)) }

====
